---------------------------- MODULE Spec2Model ----------------------------
(* Model of the fizz agent core: the TurnState history buffer with its     *)
(* trimming policy (src/src/agent/mod.rs), the tool-call protocol          *)
(* (src/src/agent/tools.rs) and the TurnEngine run_turn loop.              *)
(*                                                                         *)
(* Text is modelled as a sequence of chunks: every punctuation character   *)
(* that matters to the JSON envelope ("{", "}", ":", ",", the quote) and   *)
(* every whitespace character is a chunk of its own, a run of other        *)
(* characters is one chunk.                                                *)
EXTENDS Integers, Sequences, FiniteSets, TLC

VARIABLES
    state,        \* TurnEngine.state: [history, history_kinds, system_len]
    pc,           \* position of run_turn_with: "idle", "chat", "tool"
    tool_hops,    \* local tool_hops of run_turn_with
    response,     \* local response of run_turn_with
    tool_call,    \* what parse_tool_call made of the response
    result,       \* what the last run_turn returned
    chat_calls,   \* chat invocations of the current turn (StubModel.call_count)
    tool_execs,   \* tool executions of the current turn (tool_calls.len())
    tool_outcome, \* what execute_tool returned in the current hop
    system_messages, \* the system messages the TurnState was constructed from
    trimmed,      \* the last push_message found the buffer over capacity
    pushed,       \* the entry the last push_message was given
    chat_input,   \* the messages held by the outstanding chat call
    script,       \* the pushes a scripted scenario has still to make
    turns,        \* run_turn calls started so far
    pushes        \* direct TurnState pushes made so far

vars == <<state, pc, tool_hops, response, tool_call, result, chat_calls,
          tool_execs, tool_outcome, system_messages, trimmed, pushed,
          chat_input, script, turns, pushes>>

-----------------------------------------------------------------------------
(* Program constants *)

MAX_HISTORY_MESSAGES == 40

MAX_TOOL_HOPS_PER_TURN == 2

(* Bounds of the model *)

MaxTurns == 2

MaxPushes == 4

MaxPriorTurns == 18

CountCap == 6

-----------------------------------------------------------------------------
(* Text helpers *)

Quote == "\""

IsWhitespace(c) == c \in {" ", "\n", "\t", "\r"}

Min(a, b) == IF a <= b THEN a ELSE b

Max(a, b) == IF a >= b THEN a ELSE b

SaturatingSub(a, b) == IF a >= b THEN a - b ELSE 0

\* str::trim: drop the leading and the trailing whitespace
Trim(t) ==
    LET keep == {i \in 1..Len(t) : ~IsWhitespace(t[i])}
    IN  IF keep = {} THEN <<>>
        ELSE LET first == CHOOSE i \in keep : \A j \in keep : i <= j
                 last  == CHOOSE i \in keep : \A j \in keep : j <= i
             IN  SubSeq(t, first, last)

-----------------------------------------------------------------------------
(* Message model, src/src/model.rs *)

MessageSystem(content) == [role |-> "system", content |-> content]

MessageUser(content) == [role |-> "user", content |-> content]

MessageAssistant(content) == [role |-> "assistant", content |-> content]

-----------------------------------------------------------------------------
(* Tool-call protocol, src/src/agent/tools.rs *)

usage_instructions == <<"Tools are available.">>

NoToolCall == [some |-> FALSE, name |-> <<>>]

\* the only value of a singleton set: binds a computed value once
The(S) == CHOOSE x \in S : TRUE

(* serde_json reads the text as a sequence of tokens: a string literal runs  *)
(* from a quote to the next quote, whitespace between tokens is skipped,     *)
(* every other chunk is a token of its own.                                  *)

StringToken(val) == [kind |-> "string", val |-> val]

ChunkToken(c) == [kind |-> "chunk", val |-> <<c>>]

QuotePositions(t) == {i \in 1..Len(t) : t[i] = Quote}

\* the positions where a token starts: outside string literals (an even
\* number of quotes precedes), and no whitespace
TokenStarts(t, quotes) ==
    {p \in 1..Len(t) :
        /\ Cardinality({q \in quotes : q < p}) % 2 = 0
        /\ ~IsWhitespace(t[p])}

\* the token that starts at position p
TokenAt(t, quotes, p) ==
    IF t[p] = Quote
    THEN LET closing == CHOOSE c \in quotes :
                            c > p /\ \A d \in quotes : d > p => c <= d
         IN  StringToken(SubSeq(t, p + 1, closing - 1))
    ELSE ChunkToken(t[p])

TokensFrom(t, quotes, starts) ==
    [k \in 1..Cardinality(starts) |->
        TokenAt(t, quotes,
                CHOOSE p \in starts : Cardinality({q \in starts : q <= p}) = k)]

\* ok is FALSE for a text with an unterminated string literal
Tokens(t) ==
    The(UNION {{IF Cardinality(quotes) % 2 = 1
                THEN [ok |-> FALSE, toks |-> <<>>]
                ELSE [ok |-> TRUE, toks |-> TokensFrom(t, quotes, starts)] :
                    starts \in {TokenStarts(t, quotes)}} :
               quotes \in {QuotePositions(t)}})

\* #[serde(deny_unknown_fields)] struct ToolCallEnvelope { tool_call:
\* ToolCallPayload }, struct ToolCallPayload { name: String }: the whole
\* document is the object {"tool_call": {"name": <string>}}, each object
\* holding exactly its one field
MatchEnvelope(toks) ==
    IF /\ Len(toks) = 9
       /\ toks[1] = ChunkToken("{")
       /\ toks[2] = StringToken(<<"tool_call">>)
       /\ toks[3] = ChunkToken(":")
       /\ toks[4] = ChunkToken("{")
       /\ toks[5] = StringToken(<<"name">>)
       /\ toks[6] = ChunkToken(":")
       /\ toks[7].kind = "string"
       /\ toks[8] = ChunkToken("}")
       /\ toks[9] = ChunkToken("}")
    THEN [ok |-> TRUE, name |-> toks[7].val]
    ELSE [ok |-> FALSE, name |-> <<>>]

\* serde_json::from_str::<ToolCallEnvelope>(t).ok()
ParseToolCallEnvelope(t) ==
    The({IF lexed.ok THEN MatchEnvelope(lexed.toks)
         ELSE [ok |-> FALSE, name |-> <<>>] : lexed \in {Tokens(t)}})

\* faulty variant: the name is taken as written, without trim()
ToolCallNamed_untrimmed(parsed) ==
    IF ~parsed.ok \/ parsed.name = <<>> THEN NoToolCall
    ELSE [some |-> TRUE, name |-> parsed.name]

\* parsed.tool_call.name.trim(), None when it is empty
ToolCallNamed(parsed) ==
    IF ~parsed.ok THEN NoToolCall
    ELSE The({IF name = <<>> THEN NoToolCall ELSE [some |-> TRUE, name |-> name] :
                  name \in {Trim(parsed.name)}})

\* faulty variant: the envelope is looked for from the first brace of the text
parse_tool_call_embedded(text) ==
    LET braces == {i \in 1..Len(text) : text[i] = "{"}
        from   == IF braces = {} THEN 1
                  ELSE CHOOSE i \in braces : \A j \in braces : i <= j
    IN  The({ToolCallNamed(parsed) :
                 parsed \in {ParseToolCallEnvelope(t) :
                                t \in {Trim(SubSeq(text, from, Len(text)))}}})

parse_tool_call(text) ==
    The({ToolCallNamed(parsed) :
             parsed \in {ParseToolCallEnvelope(t) : t \in {Trim(text)}}})

\* the envelope text {"tool_call":{"name":"<name>"}}
Envelope(name) ==
    <<"{", Quote, "tool_call", Quote, ":", "{", Quote, "name", Quote, ":", Quote>>
        \o name \o <<Quote, "}", "}">>

-----------------------------------------------------------------------------
(* History buffer, src/src/agent/mod.rs *)

\* faulty variant: the turn start is told by the role, which a tool result shares
is_user_turn_start_by_role(kind) == kind \in {"UserInput", "ToolResult"}

is_user_turn_start(kind) == kind = "UserInput"

\* faulty variant: wrapping_sub in place of saturating_sub, on a 16-bit word
keep_tail_wrapping(system_len) == (MAX_HISTORY_MESSAGES - system_len) % 65536

\* faulty variant: the budget of the tail is taken from the hop limit
keep_tail_hops(system_len) == SaturatingSub(MAX_TOOL_HOPS_PER_TURN, system_len)

\* faulty variant: the system prefix is not charged to the budget
keep_tail_full(system_len) == MAX_HISTORY_MESSAGES

\* indices are 0-based as in the source; Seq positions are index + 1
keep_tail(system_len) == SaturatingSub(MAX_HISTORY_MESSAGES, system_len)

min_start(len, system_len) ==
    Max(SaturatingSub(len, keep_tail(system_len)), system_len)

\* faulty variant: the window is cut where the budget ends, aligned or not
aligned_start_unaligned(history_kinds, from) == [some |-> TRUE, idx |-> from]

\* faulty variant: rfind, the last turn start of the window
aligned_start_last(history_kinds, from) ==
    LET starts == {idx \in from..(Len(history_kinds) - 1) :
                      is_user_turn_start(history_kinds[idx + 1])}
    IN  IF starts = {} THEN [some |-> FALSE, idx |-> 0]
        ELSE [some |-> TRUE, idx |-> CHOOSE idx \in starts : \A o \in starts : idx >= o]

\* (min_start..history.len()).find(|&idx| is_user_turn_start(history_kinds[idx]))
aligned_start(history_kinds, from) ==
    LET starts == {idx \in from..(Len(history_kinds) - 1) :
                      is_user_turn_start(history_kinds[idx + 1])}
    IN  IF starts = {} THEN [some |-> FALSE, idx |-> 0]
        ELSE [some |-> TRUE, idx |-> CHOOSE idx \in starts : \A o \in starts : idx <= o]

\* faulty variant: the copy of the prefix stops one entry early
SystemPrefix_short(seq, system_len) == SubSeq(seq, 1, system_len - 1)

\* seq[..system_len].to_vec()
SystemPrefix(seq, system_len) == SubSeq(seq, 1, system_len)

\* seq[start..]
From(seq, start) == SubSeq(seq, start + 1, Len(seq))

\* faulty variant: unwrap_or(min_start), a window without a turn start is kept
trim_history_messages_keep_window(history, history_kinds, system_len) ==
    IF Len(history) <= MAX_HISTORY_MESSAGES
    THEN [history |-> history, history_kinds |-> history_kinds]
    ELSE LET from  == min_start(Len(history), system_len)
             start == aligned_start(history_kinds, from)
             cut   == IF start.some THEN start.idx ELSE from
         IN  [history |-> SystemPrefix(history, system_len) \o From(history, cut),
              history_kinds |->
                  SystemPrefix(history_kinds, system_len) \o From(history_kinds, cut)]

\* faulty variant: the early return for a buffer within the maximum is missing
trim_history_messages_always(history, history_kinds, system_len) ==
    LET start == aligned_start(history_kinds, min_start(Len(history), system_len))
    IN  [history |-> SystemPrefix(history, system_len)
                        \o (IF start.some THEN From(history, start.idx) ELSE <<>>),
         history_kinds |-> SystemPrefix(history_kinds, system_len)
                        \o (IF start.some THEN From(history_kinds, start.idx) ELSE <<>>)]

\* faulty variant: the oldest entry behind the prefix is kept in place of the
\* first entry of the retained turns
trim_history_messages_pin_first(history, history_kinds, system_len) ==
    IF Len(history) <= MAX_HISTORY_MESSAGES
    THEN [history |-> history, history_kinds |-> history_kinds]
    ELSE LET start == aligned_start(history_kinds, min_start(Len(history), system_len))
         IN  IF start.some
             THEN [history |-> SystemPrefix(history, system_len)
                                  \o <<history[system_len + 1]>>
                                  \o From(history, start.idx + 1),
                   history_kinds |-> SystemPrefix(history_kinds, system_len)
                                  \o <<history_kinds[system_len + 1]>>
                                  \o From(history_kinds, start.idx + 1)]
             ELSE [history |-> SystemPrefix(history, system_len),
                   history_kinds |-> SystemPrefix(history_kinds, system_len)]

\* faulty variant: the messages are trimmed, the kinds are left as they were
trim_history_messages_kinds_kept(history, history_kinds, system_len) ==
    IF Len(history) <= MAX_HISTORY_MESSAGES
    THEN [history |-> history, history_kinds |-> history_kinds]
    ELSE LET start == aligned_start(history_kinds, min_start(Len(history), system_len))
         IN  [history |-> SystemPrefix(history, system_len)
                             \o (IF start.some THEN From(history, start.idx) ELSE <<>>),
              history_kinds |-> history_kinds]

trim_history_messages(history, history_kinds, system_len) ==
    IF Len(history) <= MAX_HISTORY_MESSAGES
    THEN [history |-> history, history_kinds |-> history_kinds]
    ELSE LET start == aligned_start(history_kinds, min_start(Len(history), system_len))
         IN  IF start.some
             THEN [history |-> SystemPrefix(history, system_len) \o From(history, start.idx),
                   history_kinds |->
                       SystemPrefix(history_kinds, system_len) \o From(history_kinds, start.idx)]
             ELSE [history |-> SystemPrefix(history, system_len),
                   history_kinds |-> SystemPrefix(history_kinds, system_len)]

from_system_messages(messages) ==
    [history       |-> messages,
     history_kinds |-> [i \in 1..Len(messages) |-> "System"],
     system_len    |-> Len(messages)]

\* faulty variant: is_empty() without trim()
build_system_messages_untrimmed(system_prompt) ==
    (IF system_prompt # <<>> THEN <<MessageSystem(system_prompt)>> ELSE <<>>)
        \o <<MessageSystem(usage_instructions)>>

build_system_messages(system_prompt) ==
    (IF Trim(system_prompt) # <<>> THEN <<MessageSystem(system_prompt)>> ELSE <<>>)
        \o <<MessageSystem(usage_instructions)>>

TurnStateNew(system_prompt) == from_system_messages(build_system_messages(system_prompt))

\* faulty variant: clear() instead of truncate(system_len)
reset_clear(st) == [st EXCEPT !.history = <<>>, !.history_kinds = <<>>]

reset(st) ==
    [st EXCEPT !.history = SubSeq(st.history, 1, Min(st.system_len, Len(st.history))),
               !.history_kinds =
                   SubSeq(st.history_kinds, 1, Min(st.system_len, Len(st.history_kinds)))]

push_message(st, message, kind) ==
    LET kept == trim_history_messages(Append(st.history, message),
                                      Append(st.history_kinds, kind),
                                      st.system_len)
    IN  [st EXCEPT !.history = kept.history,
                   !.history_kinds = kept.history_kinds]

\* TurnState::trim_history
trim_history(st) ==
    LET kept == trim_history_messages(st.history, st.history_kinds, st.system_len)
    IN  [st EXCEPT !.history = kept.history,
                   !.history_kinds = kept.history_kinds]

\* faulty variant: the arguments of the template are swapped
format_tool_result_user_message_swapped(tool_name, tool_result) ==
    <<"Tool '">> \o tool_result \o <<"' result: ">> \o tool_name

format_tool_result_user_message(tool_name, tool_result) ==
    <<"Tool '">> \o tool_name \o <<"' result: ">> \o tool_result

push_user_input(st, content) == push_message(st, MessageUser(content), "UserInput")

\* faulty variant: the tool result is given a role of its own
push_tool_result_tool_role(st, tool_name, tool_result) ==
    push_message(st, [role |-> "tool",
                      content |-> format_tool_result_user_message(tool_name, tool_result)],
                 "ToolResult")

push_tool_result(st, tool_name, tool_result) ==
    push_message(st, MessageUser(format_tool_result_user_message(tool_name, tool_result)),
                 "ToolResult")

push_assistant(st, content) == push_message(st, MessageAssistant(content), "Assistant")

\* the append of a push_message on st takes the buffer over the maximum
Overflows(st) == Len(st.history) + 1 > MAX_HISTORY_MESSAGES

\* the argument of a push_message
Entry(message, kind) == [message |-> message, kind |-> kind]

NoEntry == Entry(MessageSystem(<<>>), "System")

\* faulty variant: the system messages are left out of the snapshot
history_tail(st) == From(st.history, st.system_len)

\* TurnState::history, copied for the chat call with to_vec()
history(st) == st.history

-----------------------------------------------------------------------------
(* Inputs of the model *)

\* cfg.system_prompt: empty, whitespace-only, non-blank
SystemPrompts == {<<>>, <<" ", "\n">>, <<"sys">>}

UserInputs == {<<"hello">>}

PlainReply == <<"plain answer">>

\* the envelope embedded in prose (mixed_output of the tests)
MixedReply == <<"Let me check.", "\n">> \o Envelope(<<"time.now">>)

ToolNames == {<<"time.now">>, <<"missing.tool">>}

Responses == {PlainReply, MixedReply} \cup {Envelope(n) : n \in ToolNames}

ExecOk(text) == [ok |-> TRUE, text |-> text]

ExecErr(text) == [ok |-> FALSE, text |-> text]

NoOutcome == [ok |-> TRUE, text |-> <<>>]

\* SystemTime::now() against UNIX_EPOCH
Clocks == {"before_epoch", "after_epoch"}

\* faulty variant: a name that is not known runs as a tool without output
execute_lenient(name, clock) ==
    IF name = <<"time.now">> /\ clock = "before_epoch"
    THEN ExecErr(<<"time.now failed: ", "second time provided was later than self">>)
    ELSE ExecOk(IF name = <<"time.now">>
                THEN <<"2026-01-01T00:00:00Z", " (unix: ", "1767225600", ")">>
                ELSE <<>>)

\* BuiltinRunner::execute: dispatch by name; one timestamp stands for every
\* reading of a clock that is not before the epoch
execute(name, clock) ==
    IF name = <<"time.now">>
    THEN IF clock = "after_epoch"
         THEN ExecOk(<<"2026-01-01T00:00:00Z", " (unix: ", "1767225600", ")">>)
         ELSE ExecErr(<<"time.now failed: ", "second time provided was later than self">>)
    ELSE ExecErr(<<"unknown tool '">> \o name \o <<"'">>)

\* the outcomes of an execution in the turn engine, whose clock is taken to
\* be after the epoch
ExecutorOutcomes(name) == {execute(name, "after_epoch")}

BackendError == <<"backend error">>

\* a conversation of n plain turns, pushed as the tests push it (every
\* intermediate buffer is bound as a value, so it is computed once)
RECURSIVE PlainTurns(_, _)
PlainTurns(st, n) ==
    IF n = 0 THEN st
    ELSE CHOOSE after \in
             {PlainTurns(push_assistant(asked, PlainReply), n - 1) :
                  asked \in {push_user_input(s, <<"hello">>) : s \in {st}}} : TRUE

\* n (Assistant tool call, ToolResult) pairs, pushed as the tests push them
RECURSIVE ToolPairs(_, _)
ToolPairs(st, n) ==
    IF n = 0 THEN st
    ELSE CHOOSE after \in
             {ToolPairs(push_tool_result(called, <<"time.now">>, <<"one">>), n - 1) :
                  called \in {push_assistant(s, Envelope(<<"time.now">>)) : s \in {st}}} : TRUE

PriorTurnCounts == {0, MaxPriorTurns}

\* no scripted scenario is running
NoScript == [name |-> "none", todo |-> <<>>]

-----------------------------------------------------------------------------
(* Turn engine, src/src/agent/mod.rs *)

NoResult == [tag |-> "none", text |-> <<>>]

Pending == [tag |-> "pending", text |-> <<>>]

Ok(text) == [tag |-> "ok", text |-> text]

Err(text) == [tag |-> "err", text |-> text]

limit_msg ==
    <<"I stopped after ", ToString(MAX_TOOL_HOPS_PER_TURN),
      " tool calls in one turn. Please try a simpler request.">>

\* faulty variant: the comparison is strict
HopLimitReached_strict(hops) == hops > MAX_TOOL_HOPS_PER_TURN

HopLimitReached(hops) == hops >= MAX_TOOL_HOPS_PER_TURN

\* faulty variant: the message of a failed execution is passed on unmarked
ToolResultText_bare(outcome) == outcome.text

\* Ok(output) => output, Err(err) => format!("ERROR: {err}")
ToolResultText(outcome) ==
    IF outcome.ok THEN outcome.text ELSE <<"ERROR: ">> \o outcome.text

\* the observers of the tests count calls; the count is capped in the model
Count(n) == IF n < CountCap THEN n + 1 ELSE n

Init ==
    /\ \E prompt \in SystemPrompts, n \in PriorTurnCounts :
           /\ system_messages = build_system_messages(prompt)
           /\ state = PlainTurns(TurnStateNew(prompt), n)
    /\ pc = "idle"
    /\ tool_hops = 0
    /\ response = <<>>
    /\ tool_call = NoToolCall
    /\ result = NoResult
    /\ chat_calls = 0
    /\ tool_execs = 0
    /\ tool_outcome = NoOutcome
    /\ trimmed = FALSE
    /\ pushed = NoEntry
    /\ chat_input = <<>>
    /\ script = NoScript
    /\ turns = 0
    /\ pushes = 0

\* faulty variant: the hop counter is carried over from the turn before
RunTurn_carry(user_input) ==
    /\ pc = "idle"
    /\ turns < MaxTurns
    /\ state' = push_user_input(state, user_input)
    /\ response' = <<>>
    /\ tool_call' = NoToolCall
    /\ result' = Pending
    /\ chat_calls' = 1
    /\ tool_execs' = 0
    /\ tool_outcome' = NoOutcome
    /\ trimmed' = Overflows(state)
    /\ pushed' = Entry(MessageUser(user_input), "UserInput")
    /\ chat_input' = history(state')
    /\ pc' = "chat"
    /\ turns' = turns + 1
    /\ UNCHANGED <<tool_hops, system_messages, script, pushes>>

\* run_turn_with up to the first chat(...).await
RunTurn(user_input) ==
    /\ pc = "idle"
    /\ turns < MaxTurns
    /\ state' = push_user_input(state, user_input)
    /\ tool_hops' = 0
    /\ response' = <<>>
    /\ tool_call' = NoToolCall
    /\ result' = Pending
    /\ chat_calls' = 1
    /\ tool_execs' = 0
    /\ tool_outcome' = NoOutcome
    /\ trimmed' = Overflows(state)
    /\ pushed' = Entry(MessageUser(user_input), "UserInput")
    /\ chat_input' = history(state')
    /\ pc' = "chat"
    /\ turns' = turns + 1
    /\ UNCHANGED <<system_messages, script, pushes>>

\* faulty variant: the failed turn takes its last entry back
ChatFails_rollback ==
    /\ pc = "chat"
    /\ result' = Err(BackendError)
    /\ state' = [state EXCEPT
                     !.history = SubSeq(state.history, 1, Len(state.history) - 1),
                     !.history_kinds =
                         SubSeq(state.history_kinds, 1, Len(state.history_kinds) - 1)]
    /\ chat_input' = <<>>
    /\ pc' = "idle"
    /\ UNCHANGED <<tool_hops, response, tool_call, chat_calls, tool_execs,
                   tool_outcome, system_messages, trimmed, pushed, script, turns, pushes>>

\* chat(...).await? yields Err: the error is returned to the caller
ChatFails ==
    /\ pc = "chat"
    /\ result' = Err(BackendError)
    /\ chat_input' = <<>>
    /\ pc' = "idle"
    /\ UNCHANGED <<state, tool_hops, response, tool_call, chat_calls, tool_execs,
                   tool_outcome, system_messages, trimmed, pushed, script, turns, pushes>>

\* faulty variant: the answer is returned without being recorded
CompleteTurn_unrecorded(resp) ==
    /\ pc = "chat"
    /\ ~parse_tool_call(resp).some
    /\ response' = resp
    /\ tool_call' = parse_tool_call(resp)
    /\ result' = Ok(resp)
    /\ chat_input' = <<>>
    /\ pc' = "idle"
    /\ UNCHANGED <<state, tool_hops, chat_calls, tool_execs, tool_outcome,
                   system_messages, trimmed, pushed, script, turns, pushes>>

\* the response is no tool call: it is the answer of the turn
CompleteTurn(resp) ==
    /\ pc = "chat"
    /\ ~parse_tool_call(resp).some
    /\ response' = resp
    /\ tool_call' = parse_tool_call(resp)
    /\ state' = push_assistant(state, resp)
    /\ result' = Ok(resp)
    /\ trimmed' = Overflows(state)
    /\ pushed' = Entry(MessageAssistant(resp), "Assistant")
    /\ chat_input' = <<>>
    /\ pc' = "idle"
    /\ UNCHANGED <<tool_hops, chat_calls, tool_execs, tool_outcome,
                   system_messages, script, turns, pushes>>

\* faulty variant: the over-limit response is recorded before the limit message
StopAtHopLimit_records(resp) ==
    /\ pc = "chat"
    /\ parse_tool_call(resp).some
    /\ HopLimitReached(tool_hops)
    /\ response' = resp
    /\ tool_call' = parse_tool_call(resp)
    /\ state' = push_assistant(push_assistant(state, resp), limit_msg)
    /\ result' = Ok(limit_msg)
    /\ trimmed' = Overflows(push_assistant(state, resp))
    /\ pushed' = Entry(MessageAssistant(limit_msg), "Assistant")
    /\ chat_input' = <<>>
    /\ pc' = "idle"
    /\ UNCHANGED <<tool_hops, chat_calls, tool_execs, tool_outcome, system_messages,
                   script, turns, pushes>>

\* faulty variant: at the limit the model is asked again instead of stopping
StopAtHopLimit_retries(resp) ==
    /\ pc = "chat"
    /\ parse_tool_call(resp).some
    /\ HopLimitReached(tool_hops)
    /\ response' = resp
    /\ tool_call' = parse_tool_call(resp)
    /\ chat_calls' = Count(chat_calls)
    /\ UNCHANGED <<state, pc, tool_hops, result, tool_execs, tool_outcome,
                   system_messages, trimmed, pushed, chat_input, script, turns, pushes>>

\* faulty variant: reaching the limit fails the turn
StopAtHopLimit_fails(resp) ==
    /\ pc = "chat"
    /\ parse_tool_call(resp).some
    /\ HopLimitReached(tool_hops)
    /\ response' = resp
    /\ tool_call' = parse_tool_call(resp)
    /\ result' = Err(limit_msg)
    /\ chat_input' = <<>>
    /\ pc' = "idle"
    /\ UNCHANGED <<state, tool_hops, chat_calls, tool_execs, tool_outcome,
                   system_messages, trimmed, pushed, script, turns, pushes>>

\* the response is a tool call and the hop budget is used up
StopAtHopLimit(resp) ==
    /\ pc = "chat"
    /\ parse_tool_call(resp).some
    /\ HopLimitReached(tool_hops)
    /\ response' = resp
    /\ tool_call' = parse_tool_call(resp)
    /\ state' = push_assistant(state, limit_msg)
    /\ result' = Ok(limit_msg)
    /\ trimmed' = Overflows(state)
    /\ pushed' = Entry(MessageAssistant(limit_msg), "Assistant")
    /\ chat_input' = <<>>
    /\ pc' = "idle"
    /\ UNCHANGED <<tool_hops, chat_calls, tool_execs, tool_outcome, system_messages,
                   script, turns, pushes>>

\* faulty variant: the tool is run before the response is recorded, and the
\* response is then never recorded
BeginToolHop_unrecorded(resp) ==
    /\ pc = "chat"
    /\ parse_tool_call(resp).some
    /\ ~HopLimitReached(tool_hops)
    /\ response' = resp
    /\ tool_call' = parse_tool_call(resp)
    /\ tool_hops' = tool_hops + 1
    /\ tool_outcome' = NoOutcome
    /\ tool_execs' = Count(tool_execs)
    /\ chat_input' = <<>>
    /\ pc' = "tool"
    /\ UNCHANGED <<state, trimmed, pushed, result, chat_calls, system_messages, script,
                   turns, pushes>>

\* the response is a tool call within the budget: record it, call the executor
BeginToolHop(resp) ==
    /\ pc = "chat"
    /\ parse_tool_call(resp).some
    /\ ~HopLimitReached(tool_hops)
    /\ response' = resp
    /\ tool_call' = parse_tool_call(resp)
    /\ tool_hops' = tool_hops + 1
    /\ state' = push_assistant(state, resp)
    /\ tool_outcome' = NoOutcome
    /\ tool_execs' = Count(tool_execs)
    /\ trimmed' = Overflows(state)
    /\ pushed' = Entry(MessageAssistant(resp), "Assistant")
    /\ chat_input' = <<>>
    /\ pc' = "tool"
    /\ UNCHANGED <<result, chat_calls, system_messages, script, turns, pushes>>

\* faulty variant: the model is asked again before the tool result is appended
ToolReturns_early(outcome) ==
    /\ pc = "tool"
    /\ tool_outcome' = outcome
    /\ state' = push_tool_result(state, tool_call.name, ToolResultText(outcome))
    /\ trimmed' = Overflows(state)
    /\ pushed' = Entry(MessageUser(format_tool_result_user_message(
                           tool_call.name, ToolResultText(outcome))), "ToolResult")
    /\ chat_input' = history(state)
    /\ chat_calls' = Count(chat_calls)
    /\ pc' = "chat"
    /\ UNCHANGED <<tool_hops, response, tool_call, result, tool_execs,
                   system_messages, script, turns, pushes>>

\* faulty variant: an executor error is returned to the caller
ToolReturns_fatal(outcome) ==
    /\ pc = "tool"
    /\ tool_outcome' = outcome
    /\ IF outcome.ok
       THEN /\ state' = push_tool_result(state, tool_call.name, ToolResultText(outcome))
            /\ trimmed' = Overflows(state)
            /\ pushed' = Entry(MessageUser(format_tool_result_user_message(
                                   tool_call.name, ToolResultText(outcome))), "ToolResult")
            /\ chat_input' = history(state')
            /\ chat_calls' = Count(chat_calls)
            /\ pc' = "chat"
            /\ UNCHANGED result
       ELSE /\ result' = Err(outcome.text)
            /\ pc' = "idle"
            /\ UNCHANGED <<state, trimmed, pushed, chat_input, chat_calls>>
    /\ UNCHANGED <<tool_hops, response, tool_call, tool_execs, system_messages,
                   script, turns, pushes>>

\* the executor returns: fold the result into the history, ask the model again
ToolReturns(outcome) ==
    /\ pc = "tool"
    /\ tool_outcome' = outcome
    /\ state' = push_tool_result(state, tool_call.name, ToolResultText(outcome))
    /\ trimmed' = Overflows(state)
    /\ pushed' = Entry(MessageUser(format_tool_result_user_message(
                           tool_call.name, ToolResultText(outcome))), "ToolResult")
    /\ chat_input' = history(state')
    /\ chat_calls' = Count(chat_calls)
    /\ pc' = "chat"
    /\ UNCHANGED <<tool_hops, response, tool_call, result, tool_execs,
                   system_messages, script, turns, pushes>>

\* Agent::reset between turns
Reset ==
    /\ pc = "idle"
    /\ state' = reset(state)
    /\ result' = NoResult
    /\ trimmed' = FALSE
    /\ UNCHANGED <<pc, tool_hops, response, tool_call, chat_calls, tool_execs,
                   tool_outcome, system_messages, pushed, chat_input, script, turns,
                   pushes>>

Next ==
    \/ \E user_input \in UserInputs : RunTurn(user_input)
    \/ ChatFails
    \/ \E resp \in Responses : CompleteTurn(resp)
    \/ \E resp \in Responses : StopAtHopLimit(resp)
    \/ \E resp \in Responses : BeginToolHop(resp)
    \/ \E outcome \in ExecutorOutcomes(tool_call.name) : ToolReturns(outcome)
    \/ Reset

Spec == Init /\ [][Next]_vars

\* every chat call and every tool execution eventually returns
FairSpec ==
    /\ Spec
    /\ WF_vars(ChatFails \/ \E resp \in Responses :
                   CompleteTurn(resp) \/ StopAtHopLimit(resp) \/ BeginToolHop(resp))
    /\ WF_vars(\E outcome \in ExecutorOutcomes(tool_call.name) : ToolReturns(outcome))

-----------------------------------------------------------------------------
(* The TurnState driven directly, as the unit tests drive it *)

InitState ==
    /\ \E prompt \in SystemPrompts, n \in PriorTurnCounts :
           /\ system_messages = build_system_messages(prompt)
           /\ \/ state = PlainTurns(TurnStateNew(prompt), n)
              \/ state = ToolPairs(push_user_input(TurnStateNew(prompt), <<"q0">>), n)
    /\ pc = "idle"
    /\ tool_hops = 0
    /\ response = <<>>
    /\ tool_call = NoToolCall
    /\ result = NoResult
    /\ chat_calls = 0
    /\ tool_execs = 0
    /\ tool_outcome = NoOutcome
    /\ trimmed = FALSE
    /\ pushed = NoEntry
    /\ chat_input = <<>>
    /\ script = NoScript
    /\ turns = 0
    /\ pushes = 0

Pushed(st, entry) ==
    /\ pushes < MaxPushes
    /\ state' = st
    /\ trimmed' = Overflows(state)
    /\ pushed' = entry
    /\ pushes' = pushes + 1
    /\ UNCHANGED <<pc, tool_hops, response, tool_call, result, chat_calls, tool_execs,
                   tool_outcome, system_messages, chat_input, script, turns>>

PushUserInput(content) ==
    Pushed(push_user_input(state, content), Entry(MessageUser(content), "UserInput"))

PushAssistant(content) ==
    Pushed(push_assistant(state, content), Entry(MessageAssistant(content), "Assistant"))

PushToolResult(tool_name, tool_result) ==
    Pushed(push_tool_result(state, tool_name, tool_result),
           Entry(MessageUser(format_tool_result_user_message(tool_name, tool_result)),
                 "ToolResult"))

ResetState ==
    /\ state' = reset(state)
    /\ trimmed' = FALSE
    /\ UNCHANGED <<pc, tool_hops, response, tool_call, result, chat_calls, tool_execs,
                   tool_outcome, system_messages, pushed, chat_input, script, turns,
                   pushes>>

NextState ==
    \/ \E content \in UserInputs : PushUserInput(content)
    \/ \E content \in {PlainReply, Envelope(<<"time.now">>)} : PushAssistant(content)
    \/ \E name \in ToolNames : PushToolResult(name, <<"one">>)
    \/ ResetState

SpecState == InitState /\ [][NextState]_vars

-----------------------------------------------------------------------------
(* The scripts of the trimming unit tests, replayed push by push *)

test_system_messages == <<MessageSystem(<<"sys">>), MessageSystem(<<"tools">>)>>

test_state == from_system_messages(test_system_messages)

\* format!("{stem}{i}")
Numbered(stem, i) == <<stem, ToString(i)>>

UserStep(content) == [op |-> "user", name |-> <<>>, content |-> content]

AssistantStep(content) == [op |-> "assistant", name |-> <<>>, content |-> content]

ToolStep(name, content) == [op |-> "tool", name |-> name, content |-> content]

TrimStep == [op |-> "trim", name |-> <<>>, content |-> <<>>]

PlainTurnCountA == 25

\* trim_history_preserves_turn_boundaries
ScriptA ==
    [i \in 1..(2 * PlainTurnCountA) |->
        IF i % 2 = 1 THEN UserStep(Numbered("user-", (i - 1) \div 2))
        ELSE AssistantStep(Numbered("assistant-", (i - 2) \div 2))]

PlainTurnCountB == 17

\* trim_history_skips_tool_result_messages_as_turn_starts
ScriptB ==
    << UserStep(<<"q0">>),
       AssistantStep(Envelope(<<"time.now">>)),
       ToolStep(<<"time.now">>, <<"one">>),
       AssistantStep(Envelope(<<"time.now">>)),
       ToolStep(<<"time.now">>, <<"two">>),
       AssistantStep(<<"done">>) >>
    \o [i \in 1..(2 * PlainTurnCountB) |->
           IF i % 2 = 1 THEN UserStep(Numbered("q", (i + 1) \div 2))
           ELSE AssistantStep(Numbered("a", i \div 2))]

ToolPairCountC == 25

\* trim_history_drops_non_system_when_no_complete_turn_fits
ScriptC ==
    << UserStep(<<"q0">>) >>
    \o [i \in 1..(2 * ToolPairCountC) |->
           IF i % 2 = 1 THEN AssistantStep(Envelope(<<"time.now">>))
           ELSE ToolStep(<<"time.now">>, <<ToString((i - 2) \div 2)>>)]
    \o << TrimStep >>

Scripts ==
    { [name |-> "A", todo |-> ScriptA],
      [name |-> "B", todo |-> ScriptB],
      [name |-> "C", todo |-> ScriptC] }

InitScript ==
    /\ script \in Scripts
    /\ system_messages = test_system_messages
    /\ state = test_state
    /\ pc = "idle"
    /\ tool_hops = 0
    /\ response = <<>>
    /\ tool_call = NoToolCall
    /\ result = NoResult
    /\ chat_calls = 0
    /\ tool_execs = 0
    /\ tool_outcome = NoOutcome
    /\ trimmed = FALSE
    /\ pushed = NoEntry
    /\ chat_input = <<>>
    /\ turns = 0
    /\ pushes = 0

\* the next statement of the running test is op
NextStep(op) == script.todo # <<>> /\ Head(script.todo).op = op

Stepped(st) ==
    /\ state' = st
    /\ script' = [script EXCEPT !.todo = Tail(@)]
    /\ UNCHANGED <<pc, tool_hops, response, tool_call, result, chat_calls, tool_execs,
                   tool_outcome, system_messages, chat_input, turns, pushes>>

ScriptPushUserInput ==
    /\ NextStep("user")
    /\ Stepped(push_user_input(state, Head(script.todo).content))
    /\ trimmed' = Overflows(state)
    /\ pushed' = Entry(MessageUser(Head(script.todo).content), "UserInput")

ScriptPushAssistant ==
    /\ NextStep("assistant")
    /\ Stepped(push_assistant(state, Head(script.todo).content))
    /\ trimmed' = Overflows(state)
    /\ pushed' = Entry(MessageAssistant(Head(script.todo).content), "Assistant")

ScriptPushToolResult ==
    /\ NextStep("tool")
    /\ Stepped(push_tool_result(state, Head(script.todo).name, Head(script.todo).content))
    /\ trimmed' = Overflows(state)
    /\ pushed' = Entry(MessageUser(format_tool_result_user_message(
                           Head(script.todo).name, Head(script.todo).content)),
                       "ToolResult")

ScriptTrimHistory ==
    /\ NextStep("trim")
    /\ Stepped(trim_history(state))
    /\ UNCHANGED <<trimmed, pushed>>

NextScript ==
    \/ ScriptPushUserInput
    \/ ScriptPushAssistant
    \/ ScriptPushToolResult
    \/ ScriptTrimHistory

SpecScript == InitScript /\ [][NextScript]_vars

-----------------------------------------------------------------------------
(* A TurnState built on a system prefix that fills the maximum or exceeds it *)

\* the lengths of the prefix: one short of the maximum, the maximum, beyond it
OversizedLens ==
    {MAX_HISTORY_MESSAGES - 1, MAX_HISTORY_MESSAGES, MAX_HISTORY_MESSAGES + 1,
     MAX_HISTORY_MESSAGES + 2}

\* n system messages, each with a content of its own
SystemMessages(n) == [i \in 1..n |-> MessageSystem(Numbered("sys-", i))]

InitOversized ==
    /\ \E n \in OversizedLens :
           /\ system_messages = SystemMessages(n)
           /\ state = from_system_messages(SystemMessages(n))
    /\ pc = "idle"
    /\ tool_hops = 0
    /\ response = <<>>
    /\ tool_call = NoToolCall
    /\ result = NoResult
    /\ chat_calls = 0
    /\ tool_execs = 0
    /\ tool_outcome = NoOutcome
    /\ trimmed = FALSE
    /\ pushed = NoEntry
    /\ chat_input = <<>>
    /\ script = NoScript
    /\ turns = 0
    /\ pushes = 0

SpecOversized == InitOversized /\ [][NextState]_vars

-----------------------------------------------------------------------------
(* The tool-call protocol on its own: a response is parsed, the call is run *)

\* whitespace around the response
Pads == {<<>>, <<" ">>, <<"\n", "\t">>}

\* the string written as the name, and what trim() leaves of it
NameCase(written, name) == [written |-> written, name |-> name]

NameCases ==
    { NameCase(<<"time.now">>, <<"time.now">>),
      NameCase(<<"missing.tool">>, <<"missing.tool">>),
      NameCase(<<" ", "time.now", "\t">>, <<"time.now">>),
      NameCase(<<"my", " ", "tool">>, <<"my", " ", "tool">>),
      NameCase(<<>>, <<>>),
      NameCase(<<" ", " ", " ">>, <<>>) }

\* the envelope with whitespace between its tokens
EnvelopeSpaced(name) ==
    <<"{", " ", Quote, "tool_call", Quote, " ", ":", "\n", "{", "\t", Quote, "name",
      Quote, ":", " ", Quote>> \o name \o <<Quote, "\r", "\n", "}", " ", "}">>

ParseCase(text, some, name) == [text |-> text, some |-> some, name |-> name]

\* texts that are the envelope and nothing else
EnvelopeCases ==
    { ParseCase(before
                    \o (IF spaced THEN EnvelopeSpaced(n.written) ELSE Envelope(n.written))
                    \o after,
                n.name # <<>>, n.name) :
          before \in Pads, after \in Pads, n \in NameCases, spaced \in BOOLEAN }

\* texts that are not the envelope
OtherTexts ==
    { <<>>,
      <<" ">>,
      <<"hello">>,
      <<"TOOL_CALL", ":", "time.now">>,
      <<"{", Quote, "tool_call", Quote, ":", "{", Quote, "name", Quote, ":", "}", "}">>,
      <<"{", Quote, "name", Quote, ":", Quote, "time.now", Quote, "}">>,
      <<"{", "}">>,
      <<"{", Quote, "tool_call", Quote, ":", "{", "}", "}">>,
      <<"{", Quote, "tool_call", Quote, ":", Quote, "time.now", Quote, "}">>,
      <<"{", Quote, "tool_call", Quote, ":", "{", Quote, "name", Quote, ":", "1", "}", "}">>,
      <<"{", Quote, "tool_call", Quote, ":", "{", Quote, "name", Quote, ":", "null", "}",
        "}">>,
      <<"{", Quote, "tool_call", Quote, ":", "{", Quote, "name", Quote, ":", Quote,
        "time.now", Quote, ",", Quote, "args", Quote, ":", Quote, "x", Quote, "}", "}">>,
      <<"{", Quote, "tool_call", Quote, ":", "{", Quote, "name", Quote, ":", Quote,
        "time.now", Quote, "}", ",", Quote, "id", Quote, ":", Quote, "1", Quote, "}">>,
      <<"{", Quote, "tool_call", Quote, ":", "{", Quote, "name", Quote, ":", Quote,
        "time.now", Quote, ",", Quote, "name", Quote, ":", Quote, "time.now", Quote, "}",
        "}">>,
      <<"{", Quote, "Tool_Call", Quote, ":", "{", Quote, "name", Quote, ":", Quote,
        "time.now", Quote, "}", "}">>,
      <<"{", Quote, "tool_call", Quote, ":", "{", Quote, "name", Quote, ":", Quote,
        "time.now", "}", "}">>,
      <<"{", Quote, "tool_call", Quote, ":", "{", Quote, "name", Quote, ":", Quote,
        "time.now", Quote, "}">>,
      <<"{", "tool_call", ":", "{", "name", ":", "time.now", "}", "}">>,
      <<"[">> \o Envelope(<<"time.now">>) \o <<"]">>,
      Envelope(<<"time.now">>) \o <<"\n", "Done.">>,
      Envelope(<<"time.now">>) \o Envelope(<<"time.now">>),
      MixedReply }

ParseCases ==
    EnvelopeCases \cup {ParseCase(text, FALSE, <<>>) : text \in OtherTexts}

InitTools ==
    /\ response \in {c.text : c \in ParseCases}
    /\ pc = "text"
    /\ tool_call = NoToolCall
    /\ tool_outcome = NoOutcome
    /\ tool_execs = 0
    /\ state = test_state
    /\ system_messages = test_system_messages
    /\ tool_hops = 0
    /\ result = NoResult
    /\ chat_calls = 0
    /\ trimmed = FALSE
    /\ pushed = NoEntry
    /\ chat_input = <<>>
    /\ script = NoScript
    /\ turns = 0
    /\ pushes = 0

\* tools::parse_tool_call(&response)
ParseResponse ==
    /\ pc = "text"
    /\ tool_call' = parse_tool_call(response)
    /\ pc' = "parsed"
    /\ UNCHANGED <<state, tool_hops, response, result, chat_calls, tool_execs,
                   tool_outcome, system_messages, trimmed, pushed, chat_input, script,
                   turns, pushes>>

\* BuiltinRunner.execute(&call)
ExecuteCall ==
    /\ pc = "parsed"
    /\ tool_call.some
    /\ \E clock \in Clocks : tool_outcome' = execute(tool_call.name, clock)
    /\ tool_execs' = Count(tool_execs)
    /\ pc' = "executed"
    /\ UNCHANGED <<state, tool_hops, response, tool_call, result, chat_calls,
                   system_messages, trimmed, pushed, chat_input, script, turns, pushes>>

NextTools ==
    \/ ParseResponse
    \/ ExecuteCall

SpecTools == InitTools /\ [][NextTools]_vars

-----------------------------------------------------------------------------
(* Properties *)

Last(seq) == seq[Len(seq)]

\* the last n entries of seq (all of it when it is shorter)
LastN(seq, n) == SubSeq(seq, Max(Len(seq) - n, 0) + 1, Len(seq))

\* the kinds one turn with k tool hops has appended before its final answer
RECURSIVE TurnKinds(_)
TurnKinds(k) ==
    IF k = 0 THEN <<"UserInput">>
    ELSE TurnKinds(k - 1) \o <<"Assistant", "ToolResult">>

\* a run_turn has just returned Ok
TurnOk == pc = "idle" /\ result.tag = "ok"

\* a run_turn has just returned because the hop limit was reached
HopLimitEnd == TurnOk /\ tool_call.some

\* C1: in every state reached by pushes and resets, the first system_len
\* entries of the history are the system messages given at construction, in
\* order, each of kind System: no trim evicts or reorders them.
C1_SystemPrefixKept ==
    /\ state.system_len = Len(system_messages)
    /\ Len(state.history) >= state.system_len
    /\ Len(state.history_kinds) >= state.system_len
    /\ SubSeq(state.history, 1, state.system_len) = system_messages
    /\ \A i \in 1..state.system_len :
           state.history_kinds[i] = "System" /\ state.history[i].role = "system"

\* a push overflowed a buffer of two system messages and nothing but the
\* prefix was kept
C1_Witness ==
    /\ trimmed
    /\ pushes > 0
    /\ state.system_len = 2
    /\ Len(state.history) = 2

\* C2: with a system prefix of 1 or 2 messages the history never holds more
\* than MAX_HISTORY_MESSAGES (40) entries, after any sequence of pushes.
C2_CapacityBound ==
    /\ state.system_len \in {1, 2}
    /\ Len(state.history) <= 40
    /\ Len(state.history) <= MAX_HISTORY_MESSAGES

\* a push overflowed and the trim left a nearly full buffer
C2_Witness ==
    /\ trimmed
    /\ pushes > 0
    /\ Len(state.history) >= MAX_HISTORY_MESSAGES - 1

\* C3: one run_turn executes at most 2 tools and makes at most 3 chat calls,
\* whatever the model and the executor answer; a turn whose every response
\* was a tool call ends with exactly 3 chat calls and 2 executions.
C3_HopBound ==
    /\ tool_execs <= MAX_TOOL_HOPS_PER_TURN
    /\ chat_calls <= MAX_TOOL_HOPS_PER_TURN + 1
    /\ tool_execs <= 2 /\ chat_calls <= 3
    /\ HopLimitEnd => chat_calls = 3 /\ tool_execs = 2

\* a turn in which every response was a tool call has returned
C3_Witness == HopLimitEnd /\ chat_calls = 3 /\ tool_execs = 2

\* C4: if every chat call and every tool execution returns, every run_turn
\* returns: with a reply, with the limit message or with the backend error.
C4_Termination == (pc # "idle") ~> (pc = "idle" /\ result.tag \in {"ok", "err"})

\* a second turn has used both tool hops and returned
C4_Witness == TurnOk /\ tool_hops = 2 /\ turns >= 2

\* C5: a failing chat call ends the turn with that error, without another
\* chat call or tool execution, and leaves the history as it was before the
\* call: the user input and the entries of the completed hops stay.
C5_BackendErrorAborts ==
    [][(pc = "chat" /\ result'.tag = "err") =>
          /\ pc' = "idle"
          /\ result' = Err(BackendError)
          /\ state' = state
          /\ chat_calls' = chat_calls
          /\ tool_execs' = tool_execs
          /\ LastN(state'.history_kinds, 1 + 2 * tool_hops) = TurnKinds(tool_hops)]_vars

\* the follow-up chat call after one tool hop has failed
C5_Witness == pc = "idle" /\ result = Err(BackendError) /\ tool_hops = 1

\* C6: an executor error does not end the turn: the ToolResult entry
\* "Tool '<name>' result: ERROR: <message>" is appended, the follow-up chat
\* call is made, and the execution has counted as a hop.
C6_ToolFailureNotFatal ==
    [][(pc = "tool" /\ pc' # "tool" /\ ~tool_outcome'.ok) =>
          /\ pc' = "chat"
          /\ result' = Pending
          /\ Last(state'.history) =
                 MessageUser(<<"Tool '">> \o tool_call.name \o <<"' result: ">>
                                 \o <<"ERROR: ">> \o tool_outcome'.text)
          /\ Last(state'.history_kinds) = "ToolResult"
          /\ chat_calls' = chat_calls + 1
          /\ tool_hops' = tool_hops
          /\ tool_execs' = tool_hops]_vars

\* the second hop of a turn failed and the model is being asked again
C6_Witness == pc = "chat" /\ ~tool_outcome.ok /\ tool_hops = 2

\* C7 as stated: at the hop limit the over-limit response and then the limit
\* message are appended as two Assistant entries.
C7_AsStated ==
    HopLimitEnd =>
        /\ result = Ok(limit_msg)
        /\ LastN(state.history, 2) = <<MessageAssistant(response), MessageAssistant(limit_msg)>>
        /\ LastN(state.history_kinds, 2) = <<"Assistant", "Assistant">>

\* C7 as amended: at the hop limit the over-limit response is not recorded;
\* the limit message alone is appended, as one Assistant entry right after
\* the ToolResult entry of the last hop, and it is returned.
C7_LimitMessageOnly ==
    [][(pc = "chat" /\ pc' = "idle" /\ result'.tag = "ok" /\ tool_call'.some) =>
          /\ result' = Ok(limit_msg)
          /\ LastN(state'.history, 2) = <<Last(state.history), MessageAssistant(limit_msg)>>
          /\ LastN(state'.history_kinds, 2) = <<"ToolResult", "Assistant">>
          /\ Len(state'.history) <= Len(state.history) + 1
          /\ ~Overflows(state) =>
                 /\ state'.history = Append(state.history, MessageAssistant(limit_msg))
                 /\ state'.history_kinds = Append(state.history_kinds, "Assistant")]_vars

\* the limit message was appended by a push that had to trim
C7_Witness == HopLimitEnd /\ trimmed

\* C8: when a chat call that did not fail answers with a tool call after the
\* hop budget is used up, the turn ends with Ok and the fixed message; the
\* over-limit tool is not executed, no chat call follows, and the last
\* history entry is an Assistant entry holding the returned text.
C8_HopLimitOutcome ==
    (pc = "idle" /\ result.tag # "none" /\ result # Err(BackendError)
         /\ tool_call.some /\ tool_hops >= MAX_TOOL_HOPS_PER_TURN) =>
        /\ result =
               Ok(<<"I stopped after ", "2",
                    " tool calls in one turn. Please try a simpler request.">>)
        /\ tool_execs = 2
        /\ chat_calls = 3
        /\ Last(state.history) = MessageAssistant(result.text)
        /\ Last(state.history_kinds) = "Assistant"

\* the over-limit response asked for a tool nobody registered
C8_Witness == HopLimitEnd /\ tool_call.name = <<"missing.tool">>

\* C9: a response that is no tool call (prose, or an envelope inside prose)
\* ends the turn: it is appended verbatim as one Assistant entry and
\* returned, no tool runs for it and no chat call follows; as the first
\* response of a turn it leaves 1 chat call and 0 executions.
C9_PlainReplyEndsTurn ==
    (result.tag # "none"
         /\ (response \in {PlainReply, MixedReply}
                \/ (response # <<>> /\ ~tool_call.some))) =>
        /\ pc = "idle"
        /\ result = Ok(response)
        /\ Last(state.history) = MessageAssistant(response)
        /\ Last(state.history_kinds) = "Assistant"
        /\ chat_calls = tool_hops + 1
        /\ tool_execs = tool_hops
        /\ tool_hops = 0 => chat_calls = 1 /\ tool_execs = 0

\* the first response of a turn was the envelope inside prose
C9_Witness == pc = "idle" /\ result = Ok(MixedReply) /\ tool_hops = 0

\* C10: after a run_turn that returned Ok the last history entry is an
\* Assistant entry whose content is the returned text.
C10_AnswerRecorded ==
    TurnOk =>
        /\ Len(state.history) > state.system_len
        /\ Last(state.history) = MessageAssistant(result.text)
        /\ Last(state.history_kinds) = "Assistant"

\* a reply after one tool hop was recorded by a push that had to trim
C10_Witness == TurnOk /\ tool_hops = 1 /\ trimmed /\ result.text = PlainReply

\* the entries after the system prefix
NonSystem(st) == From(st.history_kinds, st.system_len)

IsSuffix(a, b) == Len(a) <= Len(b) /\ a = LastN(b, Len(a))

IsPrefix(a, b) == Len(a) <= Len(b) /\ a = SubSeq(b, 1, Len(a))

\* C11: the kinds one successful run_turn appends are, in order, UserInput,
\* then tool_hops (Assistant, ToolResult) pairs, then exactly one Assistant,
\* with at most MAX_TOOL_HOPS_PER_TURN pairs, whether the turn ends on a final
\* answer or on the hop limit: every step of a turn appends at most one entry
\* behind the ones already there, and the turn's entries close the buffer in
\* that shape when it returns Ok.
C11_AppendOrder ==
    [][(pc # "idle" \/ pc' # "idle") =>
          /\ \/ state' = state
             \/ /\ Len(state'.history_kinds) > state'.system_len
                /\ Last(state'.history_kinds) = pushed'.kind
                /\ IsSuffix(NonSystem(state'),
                            Append(NonSystem(state), pushed'.kind))
          /\ TurnOk' =>
                /\ tool_hops' \in 0..MAX_TOOL_HOPS_PER_TURN
                /\ Len(NonSystem(state')) >= 2 * tool_hops' + 2
                /\ LastN(state'.history_kinds, 2 * tool_hops' + 2)
                       = TurnKinds(tool_hops') \o <<"Assistant">>]_vars

\* a turn that reached the hop limit has returned
C11_Witness ==
    /\ HopLimitEnd
    /\ LastN(state.history_kinds, 6)
           = <<"UserInput", "Assistant", "ToolResult", "Assistant", "ToolResult",
               "Assistant">>

\* C12: the message list a chat call is given is the whole buffer as it
\* stands while the call is outstanding, and its first system_len messages
\* are the system messages of construction, in order, whatever turns, errors,
\* resets and trims came before.
C12_ChatInputIsHistory ==
    pc = "chat" =>
        /\ chat_input = state.history
        /\ Len(chat_input) > state.system_len
        /\ state.system_len = Len(system_messages)
        /\ SubSeq(chat_input, 1, state.system_len) = system_messages

\* the follow-up call of a second hop, made on a trimmed buffer
C12_Witness == pc = "chat" /\ tool_hops = 2 /\ trimmed /\ chat_calls = 3

\* C13: right after a push that took the buffer over the maximum, the buffer
\* is the system prefix alone or its entry at index system_len is a UserInput.
C13_TrimAligned ==
    trimmed =>
        \/ Len(state.history_kinds) = state.system_len
        \/ /\ Len(state.history_kinds) > state.system_len
           /\ state.history_kinds[state.system_len + 1] = "UserInput"

\* a trim that had to skip entries of a split turn to reach a turn start
C13_Witness ==
    /\ trimmed
    /\ Len(state.history) > state.system_len
    /\ Len(state.history) < MAX_HISTORY_MESSAGES
    /\ state.history_kinds[state.system_len + 1] = "UserInput"

\* the buffer before the trim of the last push: the old entries and the new one
Untrimmed(kinds) == Append(kinds, pushed'.kind)

\* the 0-based index in the untrimmed buffer where the retained window starts
CutIndex(before, after) == Len(before.history) + 1 - (Len(after.history) - after.system_len)

\* the 0-based index of the UserInput that started the turn of entry idx
TurnStart(kinds, idx) ==
    LET starts == {j \in 0..idx : kinds[j + 1] = "UserInput"}
    IN  IF starts = {} THEN -1
        ELSE CHOOSE j \in starts : \A o \in starts : j >= o

\* C14: a trim retains whole turns: what is kept behind the system prefix is a
\* suffix of the untrimmed buffer, and every retained Assistant or ToolResult
\* entry has the UserInput that started its turn retained before it.
C14_WholeTurns ==
    [][(trimmed' /\ Len(state'.history) > state'.system_len) =>
          LET full == Untrimmed(state.history_kinds)
              cut  == CutIndex(state, state')
          IN  /\ cut >= state.system_len
              /\ NonSystem(state') = From(full, cut)
              /\ \A idx \in cut..(Len(full) - 1) :
                     full[idx + 1] \in {"Assistant", "ToolResult"} =>
                         TurnStart(full, idx) >= cut]_vars

\* a trim that kept a turn with a tool hop whole
C14_Witness ==
    /\ trimmed
    /\ \E i \in (state.system_len + 1)..(Len(state.history) - 2) :
           /\ state.history_kinds[i] = "UserInput"
           /\ state.history_kinds[i + 1] = "Assistant"
           /\ state.history_kinds[i + 2] = "ToolResult"

\* the turn starts of kinds at 0-based indices from..(len - 1)
UserInputsFrom(kinds, from) ==
    {idx \in from..(Len(kinds) - 1) : kinds[idx + 1] = "UserInput"}

\* C15: a push that takes the buffer over the maximum leaves what the
\* reference algorithm leaves: with keep_tail = max(MAX - system_len, 0) and
\* min_start = max(len - keep_tail, system_len), and a UserInput at or after
\* min_start, the messages and the kinds are both the system prefix followed
\* by the entries from the smallest such index to the end.
C15_TrimIsReference ==
    [][trimmed' =>
          LET messages == Append(state.history, pushed'.message)
              kinds    == Append(state.history_kinds, pushed'.kind)
              len      == Len(messages)
              budget   == Max(MAX_HISTORY_MESSAGES - state.system_len, 0)
              floor    == Max(len - budget, state.system_len)
              starts   == UserInputsFrom(kinds, floor)
          IN  /\ len > MAX_HISTORY_MESSAGES
              /\ state'.system_len = state.system_len
              /\ starts # {} =>
                    \E first \in starts :
                        /\ \A o \in starts : first <= o
                        /\ state'.history =
                               SubSeq(messages, 1, state.system_len)
                                   \o SubSeq(messages, first + 1, len)
                        /\ state'.history_kinds =
                               SubSeq(kinds, 1, state.system_len)
                                   \o SubSeq(kinds, first + 1, len)]_vars

\* a trim that kept more than one turn start, so that the choice among them shows
C15_Witness ==
    /\ trimmed
    /\ Len(state.history) = MAX_HISTORY_MESSAGES - 1
    /\ Cardinality(UserInputsFrom(state.history_kinds, state.system_len)) > 1

\* C16: a reset between turns, whatever came before it, leaves the messages
\* and the kinds as they were right after construction and system_len as it
\* was, and a second reset changes nothing.
C16_ResetRestores ==
    [][(pc = "idle" /\ pc' = "idle") =>
          /\ state' = from_system_messages(system_messages)
          /\ state'.system_len = state.system_len
          /\ reset(state') = state']_vars

\* a reset has emptied a buffer that a failed turn after a hop had trimmed
C16_Witness ==
    /\ pc = "idle"
    /\ turns = MaxTurns
    /\ tool_hops >= 1
    /\ chat_calls >= 2
    /\ result = NoResult
    /\ Len(state.history) = state.system_len

\* the scripted test has made all its pushes
ScriptDone(name) == script.name = name /\ script.todo = <<>>

\* C17 as stated: after one UserInput and 25 (Assistant tool call, ToolResult)
\* pairs on two system messages the buffer holds the system prefix only, its
\* size is system_len, and no UserInput is left behind the prefix.
C17_AsStated ==
    ScriptDone("C") =>
        /\ Len(state.history) = state.system_len
        /\ \A i \in 1..Len(NonSystem(state)) : NonSystem(state)[i] # "UserInput"

\* the pushes the script makes after the push that takes the buffer over the maximum
PushesAfterOverflow(system_len) ==
    (1 + 2 * ToolPairCountC) - (MAX_HISTORY_MESSAGES + 1 - system_len)

\* C17: in that script the push that takes the buffer over the maximum leaves
\* the system prefix only, dropping the UserInput; the pairs pushed after it
\* are kept behind the prefix, so the script ends with the two system
\* messages, the last six pairs and no UserInput, within the maximum.
C17_DropAllThenRefill ==
    script.name = "C" =>
        /\ SubSeq(state.history, 1, state.system_len) = test_system_messages
        /\ Len(state.history) <= MAX_HISTORY_MESSAGES
        /\ trimmed => Len(state.history) = state.system_len
        /\ script.todo = <<>> =>
              /\ Len(NonSystem(state)) = PushesAfterOverflow(state.system_len)
              /\ \A i \in 1..Len(NonSystem(state)) :
                     NonSystem(state)[i] = IF i % 2 = 1 THEN "Assistant" ELSE "ToolResult"

\* the script has run to its end
C17_Witness == ScriptDone("C") /\ Len(state.history) > state.system_len

\* the 0-based indices at or after from of the messages with role User
UserRoleFrom(messages, from) ==
    {idx \in from..(Len(messages) - 1) : messages[idx + 1].role = "user"}

\* C18: the start of the retained window is told by the kind, not by the
\* role: a trim that keeps entries starts them at a UserInput, also when a
\* ToolResult is the first message with role User of the allowed window; and
\* after the turn q0 with two tool hops and the plain turns q1..q17 the entry
\* at index system_len is the UserInput "q1" and the buffer is within the
\* maximum.
C18_ToolResultIsNoTurnStart ==
    [][/\ (trimmed' /\ Len(state'.history) > state'.system_len) =>
             LET kinds  == Untrimmed(state.history_kinds)
                 cut    == CutIndex(state, state')
                 window == UserRoleFrom(Append(state.history, pushed'.message),
                                        min_start(Len(kinds), state.system_len))
             IN  /\ kinds[cut + 1] = "UserInput"
                 /\ cut \in window
                 /\ \A idx \in window : kinds[idx + 1] = "ToolResult" => cut # idx
       /\ ScriptDone("B")' =>
             /\ Len(state'.history) <= MAX_HISTORY_MESSAGES
             /\ state'.history_kinds[state'.system_len + 1] = "UserInput"
             /\ state'.history[state'.system_len + 1] = MessageUser(Numbered("q", 1))]_vars

\* the script has run to its end, its first turn with the tool results trimmed away
C18_Witness ==
    /\ ScriptDone("B")
    /\ state.history[state.system_len + 1] = MessageUser(Numbered("q", 1))
    /\ \A i \in 1..Len(state.history_kinds) : state.history_kinds[i] # "ToolResult"

\* a chat call is started by this step
ChatStarted == turns' # turns \/ chat_calls' > chat_calls

\* a tool execution is started by this step
ToolStarted == turns' = turns /\ tool_execs' > tool_execs

\* C19: the calls of a turn are made one after the other. A chat call is
\* outstanding exactly while the engine waits for the model, never during a
\* tool execution; a tool execution starts only in the step in which the chat
\* call that asked for it returns; and the next chat call starts only in the
\* step in which that execution returns, with the tool result appended and
\* last in the messages the call is given.
C19_Sequential ==
    [][/\ (chat_input' # <<>>) <=> (pc' = "chat")
       /\ ~(ChatStarted /\ ToolStarted)
       /\ ToolStarted =>
             /\ pc = "chat" /\ chat_input # <<>>
             /\ pc' = "tool" /\ chat_input' = <<>>
             /\ tool_call'.some
             /\ pushed' = Entry(MessageAssistant(response'), "Assistant")
       /\ ChatStarted =>
             /\ pc \in {"idle", "tool"} /\ chat_input = <<>>
             /\ pc' = "chat"
             /\ Last(chat_input') = pushed'.message
             /\ Last(state'.history) = pushed'.message
             /\ pushed'.kind = IF pc = "tool" THEN "ToolResult" ELSE "UserInput"
       /\ (pc = "tool" /\ pc' # "tool") => ChatStarted]_vars

\* the follow-up call after the second tool execution is outstanding
C19_Witness ==
    /\ pc = "chat"
    /\ chat_calls = 3
    /\ tool_execs = 2
    /\ chat_input # <<>>
    /\ Last(chat_input).role = "user"
    /\ pushed.kind = "ToolResult"

\* the 1-based position of the ToolResult of hop j of a turn of k hops that
\* has returned: the turn's entries close the buffer
ToolResultAt(st, j, k) == Len(st.history) - 2 * (k - j) - 1

\* C20: a turn in which the model asks for k tools, 0 <= k <= 2, and then
\* answers without a tool call returns that answer after exactly k + 1 chat
\* calls and k tool executions, and for each execution the buffer holds a
\* ToolResult entry, right behind the response that asked for it, whose
\* content starts with "Tool '<name>' result:" for the name parsed from that
\* response.
C20_HopsThenAnswer ==
    (TurnOk /\ ~tool_call.some) =>
        /\ result = Ok(response)
        /\ tool_hops \in 0..MAX_TOOL_HOPS_PER_TURN
        /\ chat_calls = tool_hops + 1
        /\ tool_execs = tool_hops
        /\ Last(state.history) = MessageAssistant(response)
        /\ \A j \in 1..tool_hops :
               \E at \in {ToolResultAt(state, j, tool_hops)} :
                   /\ at - 1 > state.system_len
                   /\ state.history_kinds[at] = "ToolResult"
                   /\ state.history_kinds[at - 1] = "Assistant"
                   /\ \E call \in {parse_tool_call(state.history[at - 1].content)} :
                          /\ call.some
                          /\ IsPrefix(<<"Tool '">> \o call.name \o <<"' result: ">>,
                                      state.history[at].content)

\* a final answer after two tool executions
C20_Witness ==
    /\ TurnOk
    /\ ~tool_call.some
    /\ tool_hops = 2
    /\ chat_calls = 3
    /\ tool_execs = 2
    /\ state.history_kinds[ToolResultAt(state, 1, 2)] = "ToolResult"

\* the kinds are turns one after the other, each a UserInput, (Assistant,
\* ToolResult) pairs and, when closed is asked or the turn is not the last to
\* have been cut short, one terminal Assistant
TurnStructured(kinds, closed) ==
    /\ kinds # <<>> => kinds[1] = "UserInput"
    /\ \A i \in 2..Len(kinds) :
           /\ kinds[i] = "Assistant" => kinds[i - 1] \in {"UserInput", "ToolResult"}
           /\ kinds[i] = "ToolResult" => kinds[i - 1] = "Assistant"
           /\ kinds[i] = "UserInput" =>
                  kinds[i - 1] \in (IF closed THEN {"Assistant"}
                                    ELSE {"Assistant", "UserInput", "ToolResult"})
    /\ (closed /\ kinds # <<>>) => Last(kinds) = "Assistant"
    /\ \A i \in 1..Len(kinds) : kinds[i] # "System"

\* the ToolResult entries of the turn that entry i of kinds belongs to, up to i
HopsBefore(kinds, i) ==
    Cardinality({j \in 1..i : /\ kinds[j] = "ToolResult"
                              /\ \A u \in j..i : kinds[u] # "UserInput"})

\* C21 as stated: whenever no turn is in progress, after successful and failed
\* turns and resets, the entries behind the system prefix are complete turns:
\* a UserInput, (Assistant, ToolResult) pairs, a terminal Assistant.
C21_AsStated == pc = "idle" => TurnStructured(NonSystem(state), TRUE)

\* C21: whenever no turn is in progress the entries behind the system prefix
\* are turns one after the other, each a UserInput followed by at most
\* MAX_TOOL_HOPS_PER_TURN (Assistant, ToolResult) pairs and then one terminal
\* Assistant, except that a turn ended by a backend error has no terminal
\* Assistant and stays as it was when the call failed; only a turn whose last
\* run_turn returned Ok is sure to be closed.
C21_TurnsOrAbortedTurns ==
    pc = "idle" =>
        /\ TurnStructured(NonSystem(state), FALSE)
        /\ \A i \in 1..Len(NonSystem(state)) :
               HopsBefore(NonSystem(state), i) <= MAX_TOOL_HOPS_PER_TURN
        /\ TurnOk => Last(NonSystem(state)) = "Assistant"
        /\ (result.tag = "err" /\ NonSystem(state) # <<>>) =>
               Last(NonSystem(state)) \in {"UserInput", "ToolResult"}

\* a completed turn stands behind a turn that a backend error cut short after a hop
C21_Witness ==
    /\ TurnOk
    /\ \E i \in 2..Len(NonSystem(state)) :
           NonSystem(state)[i - 1] = "ToolResult" /\ NonSystem(state)[i] = "UserInput"

\* what the shape of the parsed response calls for
Expected(text) ==
    {[some |-> c.some, name |-> c.name] : c \in {d \in ParseCases : d.text = text}}

UnknownTool(name) == ExecErr(<<"unknown tool '">> \o name \o <<"'">>)

\* C23 as stated: running the call time.now succeeds with text output, and
\* running any other name fails with the error unknown tool '<name>'.
C23_AsStated ==
    pc = "executed" =>
        IF tool_call.name = <<"time.now">>
        THEN tool_outcome.ok /\ tool_outcome.text # <<>>
        ELSE tool_outcome = UnknownTool(tool_call.name)

\* C23: running the call time.now gives text output, "<timestamp> (unix:
\* <seconds>)", or, when the system clock reads before the epoch, the
\* execution error "time.now failed: ..."; running any other name fails with
\* the error unknown tool '<name>' and never succeeds.
C23_BuiltinDispatch ==
    pc = "executed" =>
        IF tool_call.name = <<"time.now">>
        THEN \/ /\ tool_outcome.ok
                /\ Len(tool_outcome.text) = 4
                /\ tool_outcome.text[2] = " (unix: "
                /\ Last(tool_outcome.text) = ")"
             \/ /\ ~tool_outcome.ok
                /\ IsPrefix(<<"time.now failed: ">>, tool_outcome.text)
        ELSE tool_outcome = UnknownTool(tool_call.name)

\* time.now was run on a clock that reads before the epoch
C23_Witness ==
    /\ pc = "executed"
    /\ tool_call.name = <<"time.now">>
    /\ ~tool_outcome.ok

\* C24: a tool result is appended as one message with role User and kind
\* ToolResult whose content is exactly Tool '<name>' result: <result>, with
\* the name of the call the response before it asked for and, as result, the
\* output of the execution or ERROR: <message> when it failed.
C24_ToolResultFolded ==
    (pc = "chat" /\ tool_hops >= 1) =>
        /\ Last(state.history_kinds) = "ToolResult"
        /\ Last(state.history).role = "user"
        /\ Last(state.history).content =
               <<"Tool '">> \o tool_call.name \o <<"' result: ">>
                   \o (IF tool_outcome.ok THEN tool_outcome.text
                       ELSE <<"ERROR: ">> \o tool_outcome.text)
        /\ state.history_kinds[Len(state.history) - 1] = "Assistant"
        /\ state.history[Len(state.history) - 1] =
               MessageAssistant(Envelope(tool_call.name))
        /\ tool_outcome \in ExecutorOutcomes(tool_call.name)

\* the result of a failed execution has been folded into a trimmed buffer
C24_Witness ==
    /\ pc = "chat"
    /\ tool_hops = 1
    /\ ~tool_outcome.ok
    /\ trimmed
    /\ Last(state.history_kinds) = "ToolResult"

\* C25: no partly pushed entry and no buffer over the maximum is ever to be
\* seen: in every state, and so at every point where a turn is suspended in
\* a chat call or a tool execution and could be dropped, the messages and the
\* kinds have the same length, the buffer is within the maximum, and the
\* entry pushed before the suspension is in the buffer with its message and
\* its kind.
C25_NoPartialHistory ==
    /\ Len(state.history) = Len(state.history_kinds)
    /\ Len(state.history) <= MAX_HISTORY_MESSAGES
    /\ pc \in {"chat", "tool"} =>
           /\ Len(state.history) > state.system_len
           /\ Last(state.history) = pushed.message
           /\ Last(state.history_kinds) = pushed.kind

\* a turn is suspended in a tool execution right after a push that trimmed
C25_Witness == pc = "tool" /\ trimmed /\ tool_hops = 2

\* C26: a tool hop goes in the order: the response that asks for the tool is
\* appended as an Assistant entry, the tool is run, its result is appended as
\* a ToolResult entry, the model is called. While the tool runs the response
\* is the last entry and the follow-up call of the hop has not been made; the
\* messages every follow-up call is given end with that response followed by
\* the message of its tool result.
C26_HopStepOrder ==
    /\ pc = "tool" =>
           /\ Last(state.history) = MessageAssistant(response)
           /\ Last(state.history_kinds) = "Assistant"
           /\ tool_execs = tool_hops
           /\ chat_calls = tool_hops
           /\ chat_input = <<>>
    /\ (pc = "chat" /\ tool_hops >= 1) =>
           /\ tool_execs = tool_hops
           /\ chat_calls = tool_hops + 1
           /\ LastN(chat_input, 2) =
                  << MessageAssistant(response),
                     MessageUser(format_tool_result_user_message(
                                     tool_call.name, ToolResultText(tool_outcome))) >>
           /\ LastN(state.history_kinds, 2) = <<"Assistant", "ToolResult">>

\* the follow-up call of the first hop is outstanding, on a buffer trimmed by the hop
C26_Witness ==
    /\ pc = "chat"
    /\ tool_hops = 1
    /\ chat_calls = 2
    /\ trimmed
    /\ LastN(chat_input, 2)[1] = MessageAssistant(Envelope(<<"time.now">>))

\* C27: when a push takes the length over the maximum and no UserInput lies
\* at an index from min_start = max(len - max(MAX - system_len, 0),
\* system_len) to len - 1, the buffer after the push is the system prefix and
\* nothing else: every entry behind the prefix is dropped, the pushed one
\* included.
C27_DropAll ==
    [][LET kinds == Untrimmed(state.history_kinds)
           len   == Len(kinds)
           floor == Max(len - Max(MAX_HISTORY_MESSAGES - state.system_len, 0),
                        state.system_len)
       IN  (pushes' # pushes /\ len > MAX_HISTORY_MESSAGES
                /\ UserInputsFrom(kinds, floor) = {}) =>
               /\ state'.history = SubSeq(state.history, 1, state.system_len)
               /\ state'.history = system_messages
               /\ state'.history_kinds = [i \in 1..state.system_len |-> "System"]
               /\ state'.system_len = state.system_len]_vars

\* a push of a tool result has emptied a buffer that held one unfinished turn
C27_Witness ==
    /\ trimmed
    /\ pushed.kind = "ToolResult"
    /\ state.history = system_messages
    /\ Len(state.history_kinds) = state.system_len

\* C28: a push that makes at most MAX_HISTORY_MESSAGES entries, exactly the
\* maximum included, changes nothing else: the entries and the kinds that
\* were there stay in place, the new entry is last with its kind, the length
\* grows by one and system_len is unchanged.
C28_PushWithoutOverflow ==
    [][(pushes' # pushes /\ Len(state.history) + 1 <= MAX_HISTORY_MESSAGES) =>
          /\ state'.history = Append(state.history, pushed'.message)
          /\ state'.history_kinds = Append(state.history_kinds, pushed'.kind)
          /\ Len(state'.history) = Len(state.history) + 1
          /\ state'.system_len = state.system_len
          /\ ~trimmed']_vars

\* a push has filled the buffer to exactly the maximum
C28_Witness ==
    /\ pushes >= 1
    /\ ~trimmed
    /\ Len(state.history) = MAX_HISTORY_MESSAGES
    /\ Last(state.history) = pushed.message

\* C29: eviction is bulk and oldest first: after any push the entries behind
\* the system prefix are a contiguous suffix of the entries that were there
\* followed by the pushed one, messages and kinds cut alike, contents and
\* order unchanged, and the prefix is as it was.
C29_BulkOldestFirst ==
    [][pushes' # pushes =>
          LET messages == Append(From(state.history, state.system_len), pushed'.message)
              kinds    == Append(NonSystem(state), pushed'.kind)
              kept     == From(state'.history, state'.system_len)
          IN  /\ state'.system_len = state.system_len
              /\ SubSeq(state'.history, 1, state.system_len)
                     = SubSeq(state.history, 1, state.system_len)
              /\ IsSuffix(kept, messages)
              /\ IsSuffix(NonSystem(state'), kinds)
              /\ Len(kept) = Len(NonSystem(state'))]_vars

\* a push has evicted some of the oldest entries and kept the rest
C29_Witness ==
    /\ trimmed
    /\ Len(state.history) > state.system_len + 2
    /\ Len(state.history) < MAX_HISTORY_MESSAGES
    /\ Last(state.history) = pushed.message

\* the entries the turn in progress, or the turn that has just ended, has
\* appended so far
TurnEntries ==
    CASE pc = "chat" -> 1 + 2 * tool_hops
      [] pc = "tool" -> 2 * tool_hops
      [] pc = "idle" /\ result.tag = "ok" -> 2 + 2 * tool_hops
      [] pc = "idle" /\ result.tag = "err" -> 1 + 2 * tool_hops
      [] OTHER -> 0

\* C30: driven through run_turn and reset on a system prefix of 1 or 2
\* messages, a turn never loses its own entries: at every point of the turn
\* its UserInput and everything appended after it close the buffer, at most
\* 6 entries, and no trim leaves the system prefix alone.
C30_CurrentTurnKept ==
    /\ state.system_len \in {1, 2}
    /\ TurnEntries <= 2 + 2 * MAX_TOOL_HOPS_PER_TURN
    /\ Len(NonSystem(state)) >= TurnEntries
    /\ LastN(state.history_kinds, TurnEntries)
           = SubSeq(TurnKinds(tool_hops) \o <<"Assistant">>, 1, TurnEntries)
    /\ trimmed =>
           /\ Len(state.history) > state.system_len
           /\ state.history_kinds[state.system_len + 1] = "UserInput"

\* the second hop of a turn has trimmed the buffer and the turn is whole
C30_Witness ==
    /\ pc = "chat"
    /\ trimmed
    /\ TurnEntries = 5
    /\ LastN(state.history_kinds, 5)[1] = "UserInput"

\* C31: driven through run_turn and reset, turns ended by a backend error
\* included, the entry at index system_len, if there is one, has kind
\* UserInput in every state, not only right after a trim.
C31_FirstEntryIsUserInput ==
    Len(state.history_kinds) > state.system_len =>
        state.history_kinds[state.system_len + 1] = "UserInput"

\* a turn on a trimmed buffer was ended by a backend error after a hop
C31_Witness ==
    /\ pc = "idle"
    /\ result.tag = "err"
    /\ tool_hops >= 1
    /\ Len(state.history) >= MAX_HISTORY_MESSAGES - 1
    /\ state.history_kinds[state.system_len + 1] = "UserInput"

\* C32: the last message of the list every chat call is given has role User:
\* on the first call of a turn it is the turn's UserInput, on every follow-up
\* call the ToolResult just appended; no call is given a list that ends with
\* an Assistant or a System message.
C32_ChatInputEndsWithUser ==
    pc = "chat" =>
        /\ chat_input # <<>>
        /\ Last(chat_input).role = "user"
        /\ Last(state.history_kinds) =
               IF chat_calls = 1 THEN "UserInput" ELSE "ToolResult"
        /\ Last(chat_input) = Last(state.history)
        /\ chat_calls = 1 <=> tool_hops = 0

\* the first call of a second turn is outstanding
C32_Witness ==
    /\ pc = "chat"
    /\ chat_calls = 1
    /\ turns = 2
    /\ Last(chat_input).role = "user"
    /\ Len(chat_input) > state.system_len + 1

\* C33: the hop budget is per turn: every run_turn starts with the hop
\* counter at 0 and no execution counted, whatever the turns before it used
\* and however they ended, and every turn that is stopped at the hop limit
\* has run exactly MAX_TOOL_HOPS_PER_TURN tools of its own.
C33_HopBudgetPerTurn ==
    [][/\ turns' # turns =>
             /\ tool_hops' = 0
             /\ tool_execs' = 0
             /\ chat_calls' = 1
       /\ (pc = "chat" /\ HopLimitEnd') =>
             /\ tool_hops' = MAX_TOOL_HOPS_PER_TURN
             /\ tool_execs' = MAX_TOOL_HOPS_PER_TURN
             /\ LastN(state'.history_kinds, 6)
                    = TurnKinds(MAX_TOOL_HOPS_PER_TURN) \o <<"Assistant">>]_vars

\* a turn that follows a turn stopped at the hop limit has run two tools
C33_Witness ==
    /\ pc = "chat"
    /\ turns = 2
    /\ tool_execs = MAX_TOOL_HOPS_PER_TURN
    /\ Len(state.history) > 6
    /\ state.history[Len(state.history) - 5] = MessageAssistant(limit_msg)

\* the role a kind goes with
RoleOf(kind) ==
    CASE kind = "System" -> "system"
      [] kind \in {"UserInput", "ToolResult"} -> "user"
      [] kind = "Assistant" -> "assistant"

\* C34: kind and role agree in every state: an entry of kind System has role
\* System and lies in the system prefix, UserInput and ToolResult entries
\* have role User, Assistant entries have role Assistant, and no entry behind
\* the prefix has kind System.
C34_KindAndRoleAgree ==
    /\ Len(state.history) = Len(state.history_kinds)
    /\ \A i \in 1..Len(state.history_kinds) :
           /\ state.history_kinds[i] \in {"System", "UserInput", "ToolResult", "Assistant"}
           /\ state.history[i].role = RoleOf(state.history_kinds[i])
           /\ state.history_kinds[i] = "System" <=> i <= state.system_len

\* a buffer that holds entries of all four kinds after a trim
C34_Witness ==
    /\ trimmed
    /\ {state.history_kinds[i] : i \in 1..Len(state.history_kinds)}
           = {"System", "UserInput", "ToolResult", "Assistant"}
    /\ pc = "idle"

\* C35: on a TurnState built with system_len >= MAX_HISTORY_MESSAGES the
\* budget of the tail is 0 and every push takes the buffer over the maximum
\* and leaves the system prefix and nothing else, the pushed entry discarded:
\* the length stays system_len, which is over the maximum when system_len is,
\* and the prefix is never cut.
C35_OversizedPrefix ==
    state.system_len >= MAX_HISTORY_MESSAGES =>
        /\ MAX_HISTORY_MESSAGES - state.system_len <= 0
        /\ state.history = system_messages
        /\ Len(state.history) = state.system_len
        /\ state.history_kinds = [i \in 1..state.system_len |-> "System"]
        /\ Overflows(state)
        /\ state.system_len > MAX_HISTORY_MESSAGES =>
               Len(state.history) > MAX_HISTORY_MESSAGES

\* a UserInput pushed onto a prefix longer than the maximum was discarded
C35_Witness ==
    /\ state.system_len = MAX_HISTORY_MESSAGES + 1
    /\ pushes >= 2
    /\ trimmed
    /\ pushed.kind = "UserInput"
    /\ Len(state.history) = state.system_len

\* the prompt is empty or holds whitespace only
Blank(prompt) == \A i \in 1..Len(prompt) : IsWhitespace(prompt[i])

\* the system prefix a prompt calls for
PrefixFor(prompt) ==
    IF Blank(prompt) THEN <<MessageSystem(usage_instructions)>>
    ELSE <<MessageSystem(prompt), MessageSystem(usage_instructions)>>

\* C36: the system prefix an Agent is built with is the configured system
\* prompt followed by the tool usage instructions when the prompt is not
\* blank, and the tool usage instructions alone when the prompt is empty or
\* whitespace only; the instructions are the last system message of the
\* buffer in every state and of the list every chat call is given.
C36_SystemPrefixBuilt ==
    /\ \A prompt \in SystemPrompts :
           /\ TurnStateNew(prompt).history = PrefixFor(prompt)
           /\ TurnStateNew(prompt).system_len = IF Blank(prompt) THEN 1 ELSE 2
    /\ system_messages \in {PrefixFor(prompt) : prompt \in SystemPrompts}
    /\ SubSeq(state.history, 1, state.system_len) = system_messages
    /\ state.history[state.system_len] = MessageSystem(usage_instructions)
    /\ pc = "chat" => chat_input[state.system_len] = MessageSystem(usage_instructions)

\* a chat call on an Agent built with a whitespace-only prompt is outstanding
C36_Witness ==
    /\ pc = "chat"
    /\ state.system_len = 1
    /\ chat_input[1] = MessageSystem(usage_instructions)
    /\ tool_hops = 1

=============================================================================
